---- MODULE Spec2Model ----
(***************************************************************************)
(* The game annotation routes of backend/app/api/routes/game.py:           *)
(* annotate_game, process_unannotated_games and get_game_annotations,      *)
(* running as coroutines of one event loop over the "games" and            *)
(* "move_annotations" tables.  A coroutine is suspended only at an         *)
(* `await stockfish_service.evaluate_position(...)`; the table calls       *)
(* (`.execute()`) are synchronous, so everything a handler does between    *)
(* two engine calls is one atomic step.  Every table call may raise, every *)
(* engine call may return, raise or be cancelled.                          *)
(***************************************************************************)
EXTENDS Integers, Sequences, FiniteSets, TLC

\* ------------------------------------------------------------------ bounds
\* Number of requests served in one behaviour.
MaxCalls == 2
\* Largest `limit` a batch request carries (the route accepts 1..50).
MaxLimit == 2
\* How far around each threshold classify_move is tried, in ten-thousandths.
ProbeWidth == 12

\* ---------------------------------------------------------- the fixtures
Users == {"u1", "u2"}

\* The columns of the rows the "games" table may hold.  pgn is the shape of
\* the game's move-text as lines 240-247 see it: "ok" (read_game yields a
\* game), "empty" (the column is empty, `not pgn`), "blank" (read_game finds
\* no game and returns None).  recorded is the number of moves the move-text
\* records and plies the length of chess_game.mainline(): read_game stops at
\* the first recorded move that is not legal in its position, notes it in
\* chess_game.errors, which the route does not read, and raises nothing.
\* turn is the side to move in chess_game.board(), the starting position: the
\* move-text of g2 starts from a position with Black to move (a FEN header),
\* and its second recorded move is not legal.
GameTable ==
    [g1 |-> [user_id |-> "u1", pgn |-> "ok",    turn |-> "white",
             recorded |-> 3, plies |-> 3],
     g2 |-> [user_id |-> "u1", pgn |-> "ok",    turn |-> "black",
             recorded |-> 2, plies |-> 1],
     g3 |-> [user_id |-> "u2", pgn |-> "empty", turn |-> "white",
             recorded |-> 0, plies |-> 0]]

\* The identifiers a request may name.
GameIds == DOMAIN GameTable

\* The "games" tables a behaviour may run on: with every row, or without g3
\* (whose id then names no game).  The routes add and delete no game.
GameSets == {GameIds, GameIds \ {"g3"}}

\* The scores the engine may report for a position (a game and the number of
\* plies played), in ten-thousandths of a pawn.  The engine need not give the
\* same answer twice: the position after the first ply of g1 has two.
EngineScores(fen) ==
    CASE fen[2] = 0 -> {2000}
      [] fen = <<"g1", 1>> -> {0, 3000}
      [] fen[2] = 1 -> {3000}
      [] fen[2] = 2 -> {-9000}
      [] OTHER      -> {-4000}

AllScores ==
    UNION { UNION { EngineScores(<<g, b>>) : b \in 0..GameTable[g].plies } :
              g \in GameIds }

CallIds == 1..MaxCalls

VARIABLES
    games,        \* the ids of the rows of the games table
    analyzed,     \* games.analyzed, per game id
    store,        \* the rows of move_annotations: per game_id, in insertion order
    calls,        \* one record per request: the coroutine's locals and result
    started,      \* how many requests have been received
    flagWrites,   \* history: per game, how often analyzed was written to true
    probe,        \* an evaluation change handed to classify_move on its own
    label         \* what classify_move answered for it ("" before the call)

vars == <<games, analyzed, store, calls, started, flagWrites, probe, label>>

\* ------------------------------------------------------------ pure helpers
\* board.turn of game g after `board` plies from its starting position
\* (lines 250, 259).
Color(g, board) ==
    IF (board % 2 = 0) = (GameTable[g].turn = "white") THEN "white" ELSE "black"

\* board.fen(): the position of game g after `board` plies (lines 262, 270).
Fen(g, board) == <<g, board>>

\* classify_move with `<=` for `<` at line 424.
classify_move_Closed(evaluation_change) ==
    IF evaluation_change <= -20000 THEN "blunder"
    ELSE IF evaluation_change < -10000 THEN "mistake"
    ELSE IF evaluation_change < -5000 THEN "inaccuracy"
    ELSE IF evaluation_change < 1000 THEN "good"
    ELSE IF evaluation_change < 5000 THEN "great"
    ELSE "excellent"

\* classify_move (lines 414-435), on ten-thousandths of a pawn.
classify_move(evaluation_change) ==
    IF evaluation_change < -20000 THEN "blunder"
    ELSE IF evaluation_change < -10000 THEN "mistake"
    ELSE IF evaluation_change < -5000 THEN "inaccuracy"
    ELSE IF evaluation_change < 1000 THEN "good"
    ELSE IF evaluation_change < 5000 THEN "great"
    ELSE "excellent"

\* EvaluationChange without the branch of lines 275-277: White's formula for
\* both colors.
EvaluationChange_WhiteOnly(color, evaluation_before, evaluation_after) ==
    evaluation_after - evaluation_before

\* Lines 274-280: the evaluation change from the mover's side.
EvaluationChange(color, evaluation_before, evaluation_after) ==
    IF color = "black"
    THEN (0 - evaluation_after) - (0 - evaluation_before)
    ELSE evaluation_after - evaluation_before

\* The ply (1-based) a stored row stands for: its position after the move is
\* the game's position after that many plies.
PlyOf(a) == a.fen_after[2]

\* The rows of one game, in insertion order.
RowsOf(st, g) == st[g]

\* The orderings of the rows numbered idxs that ascend in move_number: the
\* next row is any of those with the least move_number left.
RECURSIVE Ascending(_, _)
Ascending(rows, idxs) ==
    IF idxs = {} THEN { <<>> }
    ELSE LET least == { i \in idxs :
                          \A j \in idxs : rows[i].move_number <= rows[j].move_number }
         IN  UNION { { <<rows[i]>> \o r : r \in Ascending(rows, idxs \ {i}) } :
                       i \in least }

\* select("*").eq("game_id", g).order("move_number") (lines 232, 407): the
\* rows of g in ascending move_number; the table fixes no order among rows of
\* equal move_number, so every such order is a possible answer.
OrderByMoveNumber(st, g) == Ascending(RowsOf(st, g), DOMAIN RowsOf(st, g))

\* select("id").eq("analyzed", False).limit(limit) (line 347): up to `limit`
\* unanalyzed game ids, of any owner, in any order.
ListUnanalyzed(gs, an, limit) ==
    LET open == { g \in gs : ~an[g] }
        n == IF Cardinality(open) < limit THEN Cardinality(open) ELSE limit
    IN  { s \in [1..n -> open] : \A i, j \in 1..n : i # j => s[i] # s[j] }

\* ------------------------------------------------------- coroutine records
\* The locals of a request that has not been received yet.
IdleCall ==
    [op |-> "none", user |-> "", pc |-> "idle",
     game_id |-> "", game_analyzed |-> FALSE, board |-> 0, move_number |-> 1, evaluation_before |-> 0,
     move_annotations |-> <<>>,
     cands |-> <<>>, idx |-> 0, processed_game_ids |-> <<>>,
     status |-> 0, data |-> <<>>, count |-> 0,
     \* history of the request, read by the properties only
     raised |-> "", engineCalls |-> 0, writes |-> 0, listed |-> FALSE,
     outcomes |-> <<>>]

\* The record of a request that has ended (pc is "done" or "cancelled"): its
\* answer and its history; the coroutine's locals are gone.
Ended(c, pc, exc, status, data) ==
    [IdleCall EXCEPT !.op = c.op, !.user = c.user, !.pc = pc,
                     !.game_id = IF c.op = "batch" THEN "" ELSE c.game_id,
                     !.game_analyzed = c.op # "batch" /\ c.game_analyzed,
                     !.cands = c.cands,
                     !.status = status, !.data = data, !.count = Len(data),
                     !.raised = exc, !.engineCalls = c.engineCalls,
                     !.writes = c.writes, !.listed = c.listed,
                     !.outcomes = c.outcomes]

\* A handler's view while it runs: the two tables and its own locals.
View(c) ==
    [games |-> games, analyzed |-> analyzed, store |-> store, flagWrites |-> flagWrites,
     call |-> calls[c]]

\* Lines 324-326 (and 374-376, 410-412): `except Exception` catches whatever
\* the try block raised, the HTTPException of lines 221, 227, 242 and 247
\* included, and re-raises it as HTTPException(500).
ExceptHandler(exc) == 500

RECURSIVE ProcessLoop(_)

\* AnnotateEnds with line 364 moved out of the try block: the id is appended
\* whether annotate_game answered or raised.
AnnotateEnds_AppendAlways(s, exc, status, data) ==
    IF s.call.op = "annotate"
    THEN { [s EXCEPT !.call = Ended(@, "done", exc, status, data)] }
    ELSE ProcessLoop(
           [s EXCEPT !.call.outcomes =
                        Append(@, [game_id |-> s.call.game_id, status |-> status]),
                     !.call.processed_game_ids = Append(@, s.call.game_id),
                     !.call.idx = @ + 1])

\* AnnotateEnds without the inner try of lines 361-368: an exception of
\* annotate_game reaches the handler of lines 374-376 and ends the batch.
AnnotateEnds_NoInnerTry(s, exc, status, data) ==
    IF s.call.op = "annotate"
    THEN { [s EXCEPT !.call = Ended(@, "done", exc, status, data)] }
    ELSE IF status # 200
    THEN { [s EXCEPT !.call =
                        Ended([@ EXCEPT !.outcomes =
                                 Append(@, [game_id |-> s.call.game_id,
                                            status |-> status])],
                              "done", exc, 500, <<>>)] }
    ELSE ProcessLoop(
           [s EXCEPT !.call.outcomes =
                        Append(@, [game_id |-> s.call.game_id, status |-> status]),
                     !.call.processed_game_ids = Append(@, s.call.game_id),
                     !.call.idx = @ + 1])

\* annotate_game leaves with `status`: to the client when the request is an
\* annotate request; inside a batch, back into the loop of lines 358-368,
\* where a response appends the id (line 364) and an exception is logged and
\* skipped (lines 365-368).
AnnotateEnds(s, exc, status, data) ==
    IF s.call.op = "annotate"
    THEN { [s EXCEPT !.call = Ended(@, "done", exc, status, data)] }
    ELSE ProcessLoop(
           [s EXCEPT !.call.outcomes =
                        Append(@, [game_id |-> s.call.game_id, status |-> status]),
                     !.call.processed_game_ids =
                        IF status = 200 THEN Append(@, s.call.game_id) ELSE @,
                     !.call.idx = @ + 1])

\* An exception raised inside annotate_game's try block (lines 216-326).
Raise(s, exc) == AnnotateEnds(s, exc, ExceptHandler(exc), <<>>)

\* Persist with line 316 before the loop of lines 312-313: the flag is set
\* first, the annotations are inserted afterwards.
Persist_FlagFirst(s) ==
    LET ma == s.call.move_annotations
        n == Len(ma)
        g == s.call.game_id
        UpdateFails == Raise(s, "PersistenceError")
        InsertFails(k) ==
            Raise([s EXCEPT !.analyzed[g] = TRUE,
                            !.flagWrites[g] = @ + 1,
                            !.store[g] = @ \o SubSeq(ma, 1, k),
                            !.call.writes = @ + k + 1], "PersistenceError")
        Done ==
            AnnotateEnds([s EXCEPT !.store[g] = @ \o ma,
                                   !.analyzed[g] = TRUE,
                                   !.flagWrites[g] = @ + 1,
                                   !.call.writes = @ + n + 1], "", 200, ma)
    IN  UNION { InsertFails(k) : k \in 0..(n - 1) } \cup UpdateFails \cup Done

\* Lines 311-323: insert the annotations one by one, then set the flag, then
\* answer.  Any insert, or the update, may raise; what was inserted stays.
Persist(s) ==
    LET ma == s.call.move_annotations
        n == Len(ma)
        g == s.call.game_id
        InsertFails(k) ==
            Raise([s EXCEPT !.store[g] = @ \o SubSeq(ma, 1, k),
                            !.call.writes = @ + k], "PersistenceError")
        UpdateFails ==
            Raise([s EXCEPT !.store[g] = @ \o ma,
                            !.call.writes = @ + n], "PersistenceError")
        Done ==
            AnnotateEnds([s EXCEPT !.store[g] = @ \o ma,
                                   !.analyzed[g] = TRUE,
                                   !.flagWrites[g] = @ + 1,
                                   !.call.writes = @ + n + 1], "", 200, ma)
    IN  UNION { InsertFails(k) : k \in 0..(n - 1) } \cup UpdateFails \cup Done

\* The head of the loop of line 255: with a node left, lines 256-263 run up
\* to the engine call on the position before the move; with none left the
\* loop is over and lines 311-323 follow.
LoopHead(s) ==
    IF s.call.board < GameTable[s.call.game_id].plies
    THEN { [s EXCEPT !.call.pc = "eval_before", !.call.engineCalls = @ + 1] }
    ELSE Persist(s)

\* annotate_game without the owner check of lines 226-227.
annotate_game_NoOwnerCheck(s0, game_id) ==
    LET s == [s0 EXCEPT !.call.game_id = game_id,
                        !.call.game_analyzed =
                           game_id \in s0.games /\ s0.analyzed[game_id],
                        !.call.board = 0, !.call.move_number = 1,
                        !.call.move_annotations = <<>>]
    IN  Raise(s, "PersistenceError")
        \cup
        (IF game_id \notin s.games THEN Raise(s, "HTTP404")
         ELSE IF s.analyzed[game_id]
              THEN Raise(s, "PersistenceError")
                   \cup UNION { AnnotateEnds(s, "", 200, rows) :
                                  rows \in OrderByMoveNumber(s.store, game_id) }
         ELSE IF GameTable[game_id].pgn = "empty"
              THEN Raise(s, "HTTP400")
         ELSE IF GameTable[game_id].pgn = "blank"
              THEN Raise(s, "HTTP400")
         ELSE LoopHead(s))

\* Lines 214-254: annotate_game from its entry to its first engine call (or
\* to its end, when it makes none).
annotate_game(s0, game_id) ==
    LET s == [s0 EXCEPT !.call.game_id = game_id,
                        !.call.game_analyzed =
                           game_id \in s0.games /\ s0.analyzed[game_id],
                        !.call.board = 0, !.call.move_number = 1,
                        !.call.move_annotations = <<>>]
    IN  Raise(s, "PersistenceError")                            \* line 218 raises
        \cup
        (IF game_id \notin s.games THEN Raise(s, "HTTP404")     \* lines 220-221
         ELSE IF GameTable[game_id].user_id # s.call.user
              THEN Raise(s, "HTTP403")                          \* lines 226-227
         ELSE IF s.analyzed[game_id]                            \* lines 230-237
              THEN Raise(s, "PersistenceError")
                   \cup UNION { AnnotateEnds(s, "", 200, rows) :
                                  rows \in OrderByMoveNumber(s.store, game_id) }
         ELSE IF GameTable[game_id].pgn = "empty"
              THEN Raise(s, "HTTP400")                          \* lines 241-242
         ELSE IF GameTable[game_id].pgn = "blank"
              THEN Raise(s, "HTTP400")                          \* lines 246-247
         ELSE LoopHead(s))

\* Lines 355-373: the batch loop from candidate idx on, up to the next engine
\* call or to the batch's answer.
ProcessLoop(s) ==
    IF s.call.idx > Len(s.call.cands)
    THEN { [s EXCEPT !.call =
                        Ended(@, "done", "", 200, s.call.processed_game_ids)] }
    ELSE annotate_game(s, s.call.cands[s.call.idx])

\* Lines 343-353: process_unannotated_games from its entry.
process_unannotated_games(s, limit) ==
    { [s EXCEPT !.call = Ended(@, "done", "PersistenceError",
                               ExceptHandler("PersistenceError"), <<>>)] }
    \cup
    UNION { IF Len(cs) = 0
            THEN { [s EXCEPT !.call =
                                Ended([@ EXCEPT !.listed = TRUE], "done", "", 200, <<>>)] }
            ELSE ProcessLoop([s EXCEPT !.call.listed = TRUE, !.call.cands = cs,
                                       !.call.idx = 1])
          : cs \in ListUnanalyzed(s.games, s.analyzed, limit) }

\* get_game_annotations without the owner check of lines 403-404.
get_game_annotations_NoOwnerCheck(s0, game_id) ==
    LET s == [s0 EXCEPT !.call.game_id = game_id]
        Fails(exc) ==
            [s EXCEPT !.call = Ended(@, "done", exc, ExceptHandler(exc), <<>>)]
    IN  { Fails("PersistenceError") }
        \cup
        (IF game_id \notin s.games THEN { Fails("HTTP404") }
         ELSE { [s EXCEPT !.call = Ended(@, "done", "", 200, rows)] :
                  rows \in OrderByMoveNumber(s.store, game_id) })

\* Lines 393-412: get_game_annotations; it makes no engine call.
get_game_annotations(s0, game_id) ==
    LET s == [s0 EXCEPT !.call.game_id = game_id]
        Fails(exc) ==
            [s EXCEPT !.call = Ended(@, "done", exc, ExceptHandler(exc), <<>>)]
    IN  { Fails("PersistenceError") }
        \cup
        (IF game_id \notin s.games THEN { Fails("HTTP404") }
         ELSE IF GameTable[game_id].user_id # s.call.user THEN { Fails("HTTP403") }
         ELSE { [s EXCEPT !.call = Ended(@, "done", "", 200, rows)] :
                  rows \in OrderByMoveNumber(s.store, game_id) })

\* Lines 264-272: the engine answered for the position before the move; the
\* move is pushed and the engine is asked about the position after it.
AfterEvalBefore(s, score) ==
    [s EXCEPT !.call.evaluation_before = score,
              !.call.board = @ + 1,
              !.call.pc = "eval_after",
              !.call.engineCalls = @ + 1]

\* Annotation with line 270 ahead of line 267: fen_after is read before the
\* move is pushed.
Annotation_StaleFen(c, evaluation_after) ==
    LET color == Color(c.game_id, c.board - 1)
        change == EvaluationChange(color, c.evaluation_before, evaluation_after)
    IN  [game_id |-> c.game_id,
         move_number |-> c.move_number,
         color |-> color,
         fen_before |-> Fen(c.game_id, c.board - 1),
         fen_after |-> Fen(c.game_id, c.board - 1),
         evaluation_before |-> c.evaluation_before,
         evaluation_after |-> evaluation_after,
         evaluation_change |-> change,
         classification |-> classify_move(change),
         is_book_move |-> FALSE]

\* Lines 259-303: the annotation of the ply just evaluated.
Annotation(c, evaluation_after) ==
    LET color == Color(c.game_id, c.board - 1)
        change == EvaluationChange(color, c.evaluation_before, evaluation_after)
    IN  [game_id |-> c.game_id,
         move_number |-> c.move_number,
         color |-> color,
         fen_before |-> Fen(c.game_id, c.board - 1),
         fen_after |-> Fen(c.game_id, c.board),
         evaluation_before |-> c.evaluation_before,
         evaluation_after |-> evaluation_after,
         evaluation_change |-> change,
         classification |-> classify_move(change),
         is_book_move |-> FALSE]

\* AfterEvalAfter with the insert of line 313 inside the loop of line 255:
\* each annotation is stored as soon as it is computed.
AfterEvalAfter_InsertEach(s, score) ==
    LET a == Annotation(s.call, score)
    IN  LoopHead([s EXCEPT !.call.move_annotations = Append(@, a),
                           !.call.move_number =
                              IF a.color = "black" THEN @ + 1 ELSE @,
                           !.store[s.call.game_id] = Append(@, a),
                           !.call.writes = @ + 1])

\* AfterEvalAfter with line 308 testing for "white": move_number is
\* incremented after White's ply.
AfterEvalAfter_BumpOnWhite(s, score) ==
    LET a == Annotation(s.call, score)
    IN  LoopHead([s EXCEPT !.call.move_annotations = Append(@, a),
                           !.call.move_number =
                              IF a.color = "white" THEN @ + 1 ELSE @])

\* Lines 272-309, then the loop head again: the engine answered for the
\* position after the move.
AfterEvalAfter(s, score) ==
    LET a == Annotation(s.call, score)
    IN  LoopHead([s EXCEPT !.call.move_annotations = Append(@, a),
                           !.call.move_number =
                              IF a.color = "black" THEN @ + 1 ELSE @])

\* ------------------------------------------------------------------ actions
Init ==
    /\ games \in GameSets
    /\ analyzed = [g \in GameIds |-> FALSE]
    /\ store = [g \in GameIds |-> <<>>]
    /\ calls = [c \in CallIds |-> IdleCall]
    /\ started = 0
    /\ flagWrites = [g \in GameIds |-> 0]
    /\ probe = 0
    /\ label = ""

Commit(c, s) ==
    /\ analyzed' = s.analyzed
    /\ store' = s.store
    /\ flagWrites' = s.flagWrites
    /\ calls' = [calls EXCEPT ![c] = s.call]
    /\ UNCHANGED <<probe, label>>

Receive(c, op, u) ==
    [View(c) EXCEPT !.call.op = op, !.call.user = u]

\* POST /{game_id}/annotate arrives.
StartAnnotate(c, u, g) ==
    /\ c = started + 1
    /\ started' = c
    /\ UNCHANGED games
    /\ \E s \in annotate_game(Receive(c, "annotate", u), g) : Commit(c, s)

\* POST /process-unannotated arrives.
StartBatch(c, u, limit) ==
    /\ c = started + 1
    /\ started' = c
    /\ UNCHANGED games
    /\ \E s \in process_unannotated_games(Receive(c, "batch", u), limit) : Commit(c, s)

\* GET /{game_id}/annotations arrives and is answered.
GetAnnotations(c, u, g) ==
    /\ c = started + 1
    /\ started' = c
    /\ UNCHANGED games
    /\ \E s \in get_game_annotations(Receive(c, "get", u), g) : Commit(c, s)

\* An engine call of request c returns a score.
EvalReturns(c, score) ==
    /\ calls[c].pc \in {"eval_before", "eval_after"}
    /\ score \in EngineScores(Fen(calls[c].game_id, calls[c].board))
    /\ IF calls[c].pc = "eval_before"
       THEN Commit(c, AfterEvalBefore(View(c), score))
       ELSE \E s \in AfterEvalAfter(View(c), score) : Commit(c, s)
    /\ UNCHANGED <<games, started>>

\* An engine call of request c raises; lines 324-326 turn it into a 500.
EvalRaises(c) ==
    /\ calls[c].pc \in {"eval_before", "eval_after"}
    /\ \E s \in Raise(View(c), "EngineError") : Commit(c, s)
    /\ UNCHANGED <<games, started>>

\* Request c is cancelled while it awaits the engine: CancelledError is no
\* Exception, so no handler of the routes catches it and the request ends.
Cancel(c) ==
    /\ calls[c].pc \in {"eval_before", "eval_after"}
    /\ calls' = [calls EXCEPT ![c] = Ended(@, "cancelled", "CancelledError", 0, <<>>)]
    /\ UNCHANGED <<games, analyzed, store, flagWrites, started, probe, label>>

Next ==
    \/ \E c \in CallIds, u \in Users, g \in GameIds : StartAnnotate(c, u, g)
    \/ \E c \in CallIds, u \in Users, limit \in 1..MaxLimit : StartBatch(c, u, limit)
    \/ \E c \in CallIds, u \in Users, g \in GameIds : GetAnnotations(c, u, g)
    \/ \E c \in CallIds, score \in AllScores : EvalReturns(c, score)
    \/ \E c \in CallIds : EvalRaises(c)
    \/ \E c \in CallIds : Cancel(c)

Spec == Init /\ [][Next]_vars

\* ------------------------------------------------- classify_move on its own
\* The evaluation changes classify_move is tried on: every value within
\* ProbeWidth ten-thousandths of a pawn of one of its five thresholds.
Thresholds == {-20000, -10000, -5000, 1000, 5000}

ProbeInputs ==
    UNION { (th - ProbeWidth)..(th + ProbeWidth) : th \in Thresholds }

InitClassify ==
    /\ games = GameIds
    /\ analyzed = [g \in GameIds |-> FALSE]
    /\ store = [g \in GameIds |-> <<>>]
    /\ calls = [c \in CallIds |-> IdleCall]
    /\ started = 0
    /\ flagWrites = [g \in GameIds |-> 0]
    /\ probe \in ProbeInputs
    /\ label = ""

\* classify_move(probe) is called and answers.
Classify ==
    /\ label = ""
    /\ label' = classify_move(probe)
    /\ UNCHANGED <<games, analyzed, store, calls, started, flagWrites, probe>>

NextClassify == Classify

SpecClassify == InitClassify /\ [][NextClassify]_vars

\* --------------------------------------------------------------- properties
Running(c) == calls[c].pc \in {"eval_before", "eval_after"}

AnnotateDone(c) == calls[c].op = "annotate" /\ calls[c].pc = "done"

BatchDone(c) == calls[c].op = "batch" /\ calls[c].pc = "done"

\* Every ply of game g has a stored annotation.
Covered(g) ==
    \A k \in 1..GameTable[g].plies :
        \E i \in DOMAIN store[g] : PlyOf(store[g][i]) = k

\* No two rows of the sequence stand for the same ply.
NoPlyTwice(rows) ==
    \A i, j \in DOMAIN rows : i # j => PlyOf(rows[i]) # PlyOf(rows[j])

IsPrefix(a, b) == Len(a) <= Len(b) /\ SubSeq(b, 1, Len(a)) = a

\* The plies of the sequence are in move order: ascending move_number and,
\* within a move_number, no Black ply ahead of a White ply.
InMoveOrder(rows) ==
    \A i, j \in DOMAIN rows :
        i < j => /\ rows[i].move_number <= rows[j].move_number
                 /\ rows[i].move_number = rows[j].move_number
                       => ~(rows[i].color = "black" /\ rows[j].color = "white")

\* The ids of the candidates annotate_game answered for, in order.
RECURSIVE SucceededIds(_)
SucceededIds(outcomes) ==
    IF outcomes = <<>> THEN <<>>
    ELSE (IF Head(outcomes).status = 200 THEN <<Head(outcomes).game_id>> ELSE <<>>)
         \o SucceededIds(Tail(outcomes))

\* C1: in every reachable state the stored annotation set of each game is
\* absent (no rows) or complete (a row for every ply of the game), also after
\* an annotate_game that failed at an engine call, an insert or the update.
C1_CompleteOrAbsent ==
    \A g \in GameIds : store[g] = <<>> \/ Covered(g)

\* C2: in every reachable state a game whose analyzed flag is true has a
\* stored annotation for every one of its plies: the flag is set only after
\* all inserts, so a failure between the inserts and the update never leaves
\* analyzed=true over a missing or partial set.
C2_AnalyzedHasCompleteSet ==
    \A g \in GameIds : analyzed[g] => Covered(g)

\* An annotate_game on g1 wrote all three rows and failed at the update; a
\* later one set the flag.
C2_Witness ==
    /\ analyzed["g1"]
    /\ \E c \in CallIds :
          /\ AnnotateDone(c) /\ calls[c].game_id = "g1"
          /\ calls[c].raised = "PersistenceError" /\ calls[c].writes = 3

\* C3: an annotate_game by the owner on an already analyzed game makes no
\* engine call and no write, and answers with the very sequence the first
\* successful annotate_game of that game answered with.
C3_Idempotent ==
    \A c, d \in CallIds :
        ( /\ AnnotateDone(c) /\ calls[c].status = 200 /\ ~calls[c].game_analyzed
          /\ AnnotateDone(d) /\ calls[d].status = 200 /\ calls[d].game_analyzed
          /\ calls[c].game_id = calls[d].game_id )
        => /\ calls[d].engineCalls = 0
           /\ calls[d].writes = 0
           /\ calls[d].data = calls[c].data

\* C4: of two requests annotating the same game at most one runs the
\* evaluate-and-insert chain, and the chain leaves one row per ply.
C4_NoDoubleCompute ==
    \A c, d \in CallIds :
        (c # d /\ calls[c].game_id = calls[d].game_id)
        => /\ ~(Running(c) /\ Running(d))
           /\ ( /\ calls[c].pc = "done" /\ calls[c].status = 200
                /\ ~calls[c].game_analyzed
                /\ calls[d].pc = "done" /\ calls[d].status = 200
                /\ ~calls[d].game_analyzed /\ calls[c].op = "annotate"
                /\ calls[d].op = "annotate" )
              => NoPlyTwice(store[calls[c].game_id])

\* C5: annotate_game by a requester who does not own the game answers
\* "forbidden" (403) and has made no engine call and no write.
C5_NonOwnerForbidden ==
    \A c \in CallIds :
        ( /\ AnnotateDone(c) /\ calls[c].game_id \in games
          /\ GameTable[calls[c].game_id].user_id # calls[c].user )
        => /\ calls[c].status = 403
           /\ calls[c].engineCalls = 0
           /\ calls[c].writes = 0

\* The answer of an ended batch: every listed candidate was processed, and
\* game_ids holds exactly those annotate_game answered for, processed_games
\* their number.
BatchAnswerExact(c) ==
    (BatchDone(c) /\ calls[c].listed)
    => /\ Len(calls[c].outcomes) = Len(calls[c].cands)
       /\ \A i \in DOMAIN calls[c].cands :
             calls[c].outcomes[i].game_id = calls[c].cands[i]
       /\ calls[c].data = SucceededIds(calls[c].outcomes)
       /\ calls[c].count = Len(calls[c].data)

\* A step in which annotate_game fails for candidates of batch c leaves their
\* analyzed flag as it was.
FailedUnchanged(c) ==
    \A i \in (Len(calls[c].outcomes) + 1)..Len(calls'[c].outcomes) :
        calls'[c].outcomes[i].status # 200
        => analyzed'[calls'[c].outcomes[i].game_id]
              = analyzed[calls'[c].outcomes[i].game_id]

\* C6: in process_unannotated_games a failing candidate does not stop the
\* loop: every candidate is processed, the answer lists exactly the
\* candidates whose annotate_game succeeded, processed_games is the length of
\* that list, and a failing annotate_game leaves its game's flag unchanged.
C6_BatchIsolation ==
    [][\A c \in CallIds : BatchAnswerExact(c)' /\ FailedUnchanged(c)]_vars

\* A batch whose first candidate failed and whose second succeeded.
C6_Witness ==
    \E c \in CallIds :
        /\ BatchDone(c) /\ Len(calls[c].outcomes) = 2
        /\ calls[c].outcomes[1].status # 200
        /\ calls[c].outcomes[2].status = 200
        /\ calls[c].data = <<calls[c].cands[2]>>
        /\ ~analyzed[calls[c].cands[1]]

\* C7: process_unannotated_games fails only when the listing of line 347
\* fails; once the listing succeeded it answers 200 whatever the candidates
\* did, and an empty listing answers processed_games=0 with no ids, without
\* an engine call or a write.
C7_BatchFailsOnlyOnListing ==
    \A c \in CallIds :
        BatchDone(c)
        => /\ calls[c].status # 200
                => ~calls[c].listed /\ calls[c].raised = "PersistenceError"
           /\ calls[c].listed => calls[c].status = 200
           /\ (calls[c].listed /\ calls[c].cands = <<>>)
                => /\ calls[c].count = 0 /\ calls[c].data = <<>>
                   /\ calls[c].engineCalls = 0 /\ calls[c].writes = 0

\* A batch that listed no unanalyzed game, after another batch had
\* candidates to process.
C7_Witness ==
    \E c, d \in CallIds :
        /\ BatchDone(c) /\ calls[c].listed /\ calls[c].cands = <<>>
        /\ calls[c].status = 200
        /\ BatchDone(d) /\ calls[d].cands # <<>>

\* C8: the answer of annotate_game and get_game_annotations tells the error
\* kinds apart: a missing game is 404, a non-owner 403, an empty or
\* unparseable move-text 400, and only an engine or table failure is 500.
C8_ErrorKinds ==
    \A c \in CallIds :
        (calls[c].pc = "done" /\ calls[c].op \in {"annotate", "get"})
        => calls[c].status =
              CASE calls[c].raised = "" -> 200
                [] calls[c].raised = "HTTP404" -> 404
                [] calls[c].raised = "HTTP403" -> 403
                [] calls[c].raised = "HTTP400" -> 400
                [] OTHER -> 500

\* C9: a game's analyzed flag is written to true at most once and never
\* returns to false, and a stored annotation is never changed, deleted or
\* inserted a second time.
C9_WriteOnce ==
    [][\A g \in GameIds :
          /\ analyzed[g] => analyzed'[g]
          /\ flagWrites'[g] <= 1
          /\ IsPrefix(store[g], store'[g])
          /\ NoPlyTwice(store'[g])]_vars

\* C10: every annotation sequence answered by annotate_game (computed or
\* read back) and by get_game_annotations is in move order.
C10_MoveOrder ==
    \A c \in CallIds :
        ( /\ calls[c].pc = "done" /\ calls[c].op \in {"annotate", "get"}
          /\ calls[c].status = 200 )
        => InMoveOrder(calls[c].data)

\* The label the threshold table gives an evaluation change: each interval
\* closed on its lower bound and open on its upper bound.
TableLabel(x) ==
    CASE x < -20000                 -> "blunder"
      [] -20000 <= x /\ x < -10000  -> "mistake"
      [] -10000 <= x /\ x < -5000   -> "inaccuracy"
      [] -5000 <= x /\ x < 1000     -> "good"
      [] 1000 <= x /\ x < 5000      -> "great"
      [] 5000 <= x                  -> "excellent"

\* C11: classify_move gives every evaluation change the label of the
\* threshold table; in particular -2.0 is a mistake, -2.0001 a blunder, 0.1
\* great, 0.0999 good, 0.5 excellent and 0.4999 great.
C11_ClassifyTable ==
    label # ""
    => /\ label = TableLabel(probe)
       /\ probe = -20000 => label = "mistake"
       /\ probe = -20001 => label = "blunder"
       /\ probe = 1000 => label = "great"
       /\ probe = 999 => label = "good"
       /\ probe = 5000 => label = "excellent"
       /\ probe = 4999 => label = "great"

\* classify_move answered for the evaluation change -2.0.
C11_Witness == probe = -20000 /\ label = "mistake"

\* Every annotation there is: stored, held by a running request, or answered.
AllAnnotations ==
    UNION { { store[g][i] : i \in DOMAIN store[g] } : g \in GameIds }
    \cup UNION { { calls[c].move_annotations[i] :
                     i \in DOMAIN calls[c].move_annotations } : c \in CallIds }
    \cup UNION { { calls[c].data[i] : i \in DOMAIN calls[c].data } :
                   c \in { d \in CallIds : calls[d].op \in {"annotate", "get"} } }

\* C12: the evaluation change of every annotated ply is taken from the
\* mover's side, evaluation_after - evaluation_before for White and
\* evaluation_before - evaluation_after for Black, and the ply's
\* classification is the table's label of that value.
C12_MoverPerspective ==
    \A a \in AllAnnotations :
        /\ a.color = "white"
              => a.evaluation_change = a.evaluation_after - a.evaluation_before
        /\ a.color = "black"
              => a.evaluation_change = a.evaluation_before - a.evaluation_after
        /\ a.classification = TableLabel(a.evaluation_change)

\* Black's ply of g1 is stored: the score fell from 3000 to -9000, a gain
\* of 12000 for Black.
C12_Witness ==
    \E i \in DOMAIN store["g1"] :
        /\ store["g1"][i].color = "black"
        /\ store["g1"][i].evaluation_before = 3000
        /\ store["g1"][i].evaluation_change = 12000
        /\ store["g1"][i].classification = "excellent"

\* The annotation sequences annotate_game has computed: those it holds while
\* it runs and those it answered with after computing them.
ComputedSets ==
    { calls[c].move_annotations : c \in CallIds }
    \cup { calls[c].data :
             c \in { d \in CallIds : /\ AnnotateDone(d) /\ calls[d].status = 200
                                     /\ ~calls[d].game_analyzed } }

C14_Continuity ==
    \A rows \in ComputedSets : \A k \in DOMAIN rows :
        /\ k = 1 => rows[k].fen_before = Fen(rows[k].game_id, 0)
        /\ k > 1 => rows[k].fen_before = rows[k - 1].fen_after
        /\ rows[k].fen_after # rows[k].fen_before

\* annotate_game answered with three computed plies whose second starts from
\* the position the first ended in.
C14_Witness ==
    \E c \in CallIds :
        /\ AnnotateDone(c) /\ calls[c].status = 200 /\ ~calls[c].game_analyzed
        /\ Len(calls[c].data) = 3
        /\ calls[c].data[2].fen_before = calls[c].data[1].fen_after
        /\ calls[c].data[3].fen_before = calls[c].data[2].fen_after

\* C15: when an engine call of an annotate_game run fails, at whatever ply,
\* the call answers an error and has written nothing: the store and the
\* flags are as before; an annotate_game writes rows only once both engine
\* calls of every ply of the game have returned.
C15_EngineFailureWritesNothing ==
    [][\A c \in CallIds :
          /\ ( /\ calls[c].op = "annotate" /\ Running(c)
               /\ calls'[c].pc = "done" /\ calls'[c].raised = "EngineError" )
             => /\ calls'[c].status = 500 /\ calls'[c].data = <<>>
                /\ calls'[c].writes = 0
                /\ store' = store /\ analyzed' = analyzed
          /\ (calls'[c].op = "annotate" /\ calls'[c].writes > 0)
             => calls'[c].engineCalls = 2 * GameTable[calls'[c].game_id].plies]_vars

\* annotate_game on g1 failed at the fourth engine call, after the first ply
\* was evaluated; nothing of g1 is stored.
C15_Witness ==
    \E c \in CallIds :
        /\ AnnotateDone(c) /\ calls[c].game_id = "g1"
        /\ calls[c].raised = "EngineError" /\ calls[c].engineCalls = 4
        /\ store["g1"] = <<>> /\ ~analyzed["g1"]

\* C16: a game whose move-text cannot be parsed, or records a move that is
\* not legal in its position, is never annotated: annotate_game on it answers
\* an error, its flag stays false and no row of it is stored.
C16_BadRecordRejected ==
    \A g \in GameIds :
        (GameTable[g].pgn # "ok" \/ GameTable[g].plies < GameTable[g].recorded)
        => /\ ~analyzed[g]
           /\ store[g] = <<>>
           /\ \A c \in CallIds :
                 (AnnotateDone(c) /\ calls[c].game_id = g) => calls[c].status # 200

\* C17: after an annotate_game that failed while persisting (some inserts
\* done), a successful annotate_game of the same game leaves one stored row
\* per ply of the game.
C17_RetryStoresOnce ==
    \A c, d \in CallIds :
        ( /\ AnnotateDone(d) /\ calls[d].raised = "PersistenceError"
          /\ calls[d].writes > 0
          /\ AnnotateDone(c) /\ calls[c].status = 200 /\ ~calls[c].game_analyzed
          /\ calls[c].game_id = calls[d].game_id )
        => NoPlyTwice(store[calls[c].game_id])

\* C18: process_unannotated_games annotates no game the requester does not
\* own: a step of a batch leaves the flag and the rows of every other user's
\* game unchanged, and its answer lists only games of the requester; another
\* user's candidate is failed and omitted.
C18_BatchOwnGamesOnly ==
    [][\A c \in CallIds :
          (calls'[c].op = "batch" /\ calls'[c] # calls[c])
          => /\ \A g \in GameIds :
                   GameTable[g].user_id # calls'[c].user
                   => analyzed'[g] = analyzed[g] /\ store'[g] = store[g]
             /\ \A i \in DOMAIN calls'[c].outcomes :
                   GameTable[calls'[c].outcomes[i].game_id].user_id # calls'[c].user
                   => calls'[c].outcomes[i].status # 200
             /\ \A i \in DOMAIN calls'[c].data :
                   GameTable[calls'[c].data[i]].user_id = calls'[c].user]_vars

\* A batch of u2 listed two candidates, g1 of u1 among them, and answered
\* with no id; g1 is untouched.
C18_Witness ==
    \E c \in CallIds :
        /\ BatchDone(c) /\ calls[c].user = "u2" /\ calls[c].status = 200
        /\ Len(calls[c].cands) = 2
        /\ \E i \in DOMAIN calls[c].cands : calls[c].cands[i] = "g1"
        /\ calls[c].data = <<>>
        /\ ~analyzed["g1"] /\ store["g1"] = <<>>

\* C19: get_game_annotations is read-only: the step that serves it ends it,
\* makes no engine call, leaves every flag and every stored row as it was,
\* and hands rows to the owner of the game only.
C19_GetReadOnly ==
    [][\A c \in CallIds :
          (calls'[c].op = "get" /\ calls'[c] # calls[c])
          => /\ calls'[c].pc = "done"
             /\ calls'[c].engineCalls = 0
             /\ analyzed' = analyzed /\ store' = store
             /\ flagWrites' = flagWrites
             /\ calls'[c].data # <<>>
                   => GameTable[calls'[c].game_id].user_id = calls'[c].user]_vars

\* u2 asked for the annotations of g1, which has stored rows, and got none.
C19_Witness ==
    \E c \in CallIds :
        /\ calls[c].op = "get" /\ calls[c].pc = "done"
        /\ calls[c].user = "u2" /\ calls[c].game_id = "g1"
        /\ store["g1"] # <<>>
        /\ calls[c].data = <<>> /\ calls[c].status # 200

====
